---- MODULE Spec2Model ----
(***************************************************************************)
(* The rate-limiting work queue of util/workqueue/rate_limiting_queue.go.  *)
(*                                                                         *)
(* rateLimitingType is an adapter over two collaborators: a delaying queue *)
(* (DelayingInterface) and a rate limiter (RateLimiter).  The adapter is   *)
(* translated from the source.  The two collaborators are not in the       *)
(* source file; they are modelled from the written specification: the      *)
(* delaying queue as a de-duplicating FIFO with a set of timed entries, an *)
(* injected clock and a shutdown flag, the rate limiter as the counting    *)
(* limiter of the specification (When returns count * unit).               *)
(***************************************************************************)
EXTENDS Integers, Sequences, FiniteSets, TLC

\* ------------------------------------------------------------------ bounds

\* The clock runs from 0 to MaxTime ticks (one tick = one second).
MaxTime == 3

\* An item is rate limited at most MaxRequeues times without a Forget.
MaxRequeues == 2

\* A plain AddAfter is called with a duration of at most MaxDelay ticks.
MaxDelay == 1

\* ------------------------------------------------------------------ values

\* The work items (type parameter T): opaque comparable values.
Items == {"a", "b"}

\* The zero value of T, returned by Get on a queue that is shut down.
NoItem == "none"

\* readyAt of an item that has no waiting entry.
NoEntry == -1

\* The units (seconds per failure) of the counting rate limiters that the
\* constructor may be given; a unit of 0 is a limiter that never delays.
Units == {0, 1}

Min(x, y) == IF x <= y THEN x ELSE y

\* The items of a sequence.
Range(s) == {s[i] : i \in 1..Len(s)}

\* ------------------------------------------------------- the rate limiter

\* A counting rate limiter: per item, the number of failures (absent = 0).
NewRateLimiter(unit) == [failures |-> [i \in Items |-> 0], unit |-> unit]

\* RateLimiter.When: counts the failure and returns the delay count * unit.
\* The result is the limiter afterwards (rl) and the duration (d).
When(r, item) ==
    LET n == r.failures[item] + 1
    IN  [rl |-> [r EXCEPT !.failures[item] = n], d |-> n * r.unit]

\* RateLimiter.NumRequeues: the failures counted for the item.
LimiterNumRequeues(r, item) == r.failures[item]

\* RateLimiter.Forget: drops the item's entry.
LimiterForget(r, item) == [r EXCEPT !.failures[item] = 0]

\* ------------------------------------------------------ the delaying queue

\* A delaying queue at construction, on a clock that reads 0.
NewDelayingQueue ==
    [clock        |-> 0,
     waiting      |-> [i \in Items |-> NoEntry],
     queue        |-> << >>,
     dirty        |-> {},
     processing   |-> {},
     shuttingDown |-> FALSE]

\* Add: absorbed when shutting down or when the item is already dirty; an
\* item that is being processed is only marked dirty and queued at Done.
Add(dq, item) ==
    IF dq.shuttingDown \/ item \in dq.dirty
    THEN dq
    ELSE IF item \in dq.processing
         THEN [dq EXCEPT !.dirty = @ \cup {item}]
         ELSE [dq EXCEPT !.dirty = @ \cup {item}, !.queue = Append(@, item)]

\* AddAfter: absorbed when shutting down; a duration <= 0 is an Add; else the
\* item waits until clock + duration, and the earlier time wins when the item
\* is waiting already.
AddAfter(dq, item, duration) ==
    IF dq.shuttingDown
    THEN dq
    ELSE IF duration <= 0
         THEN Add(dq, item)
         ELSE [dq EXCEPT !.waiting[item] =
                   IF @ = NoEntry
                   THEN dq.clock + duration
                   ELSE Min(@, dq.clock + duration)]

\* Get on a non-empty queue: the head moves from dirty to processing.
Get(dq) ==
    LET item == Head(dq.queue)
    IN  [dq EXCEPT !.queue = Tail(@),
                   !.processing = @ \cup {item},
                   !.dirty = @ \ {item}]

\* Done: processing of the item is over; it is queued again if it was added
\* in the meantime.
Done(dq, item) ==
    IF item \in dq.dirty
    THEN [dq EXCEPT !.processing = @ \ {item}, !.queue = Append(@, item)]
    ELSE [dq EXCEPT !.processing = @ \ {item}]

\* ShutDown: the queue stops accepting items.
ShutDown(dq) == [dq EXCEPT !.shuttingDown = TRUE]

\* Len: the number of items in the queue.
QueueLen(dq) == Len(dq.queue)

\* ShuttingDown: whether ShutDown was called.
ShuttingDown(dq) == dq.shuttingDown

\* The waiting loop takes an entry that is due and adds its item.
WaitingLoop(dq, item) == Add([dq EXCEPT !.waiting[item] = NoEntry], item)

\* The injected clock advances by one tick.
Step(dq) == [dq EXCEPT !.clock = @ + 1]

\* --------------------------------------------------- the adapter (source)

\* NewRateLimitingQueueWithConfig: the struct of the delaying queue and the
\* rate limiter; a config without DelayingQueue gets the default one.
NewRateLimitingQueueWithConfig(rateLimiter) ==
    [DelayingInterface |-> NewDelayingQueue, rateLimiter |-> rateLimiter]

\* NewRateLimitingQueue: the constructor with an empty config.
NewRateLimitingQueue(rateLimiter) == NewRateLimitingQueueWithConfig(rateLimiter)

\* Variants of AddRateLimited with a slip in them.
\* The duration of When is dropped: the item is added at once.
AddRateLimited_NoDelay(s, item) ==
    LET w == When(s.rateLimiter, item)
    IN  [DelayingInterface |-> AddAfter(s.DelayingInterface, item, 0),
         rateLimiter       |-> w.rl]

\* The item is added at once and scheduled as well.
AddRateLimited_AddTwice(s, item) ==
    LET w == When(s.rateLimiter, item)
    IN  [DelayingInterface |-> AddAfter(Add(s.DelayingInterface, item), item, w.d),
         rateLimiter       |-> w.rl]

\* The delay is computed from NumRequeues and When is never called.
AddRateLimited_SkipWhen(s, item) ==
    [DelayingInterface |-> AddAfter(s.DelayingInterface, item,
                              (LimiterNumRequeues(s.rateLimiter, item) + 1)
                                  * s.rateLimiter.unit),
     rateLimiter       |-> s.rateLimiter]

\* When is called and the item is never handed to the delaying queue.
AddRateLimited_CountOnly(s, item) ==
    [s EXCEPT !.rateLimiter = When(s.rateLimiter, item).rl]

\* The entry is written into the waiting set past the queue's AddAfter.
AddRateLimited_OwnTimer(s, item) ==
    LET w == When(s.rateLimiter, item)
    IN  [DelayingInterface |->
             [s.DelayingInterface EXCEPT !.waiting[item] = s.DelayingInterface.clock + w.d],
         rateLimiter       |-> w.rl]

\* The item's waiting entry is replaced: the later schedule wins.
AddRateLimited_Reschedule(s, item) ==
    LET w == When(s.rateLimiter, item)
    IN  [DelayingInterface |->
             AddAfter([s.DelayingInterface EXCEPT !.waiting[item] = NoEntry], item, w.d),
         rateLimiter       |-> w.rl]

\* A duration of 0 is raised to one tick: no item is added without a delay.
AddRateLimited_MinDelay(s, item) ==
    LET w == When(s.rateLimiter, item)
    IN  [DelayingInterface |->
             AddAfter(s.DelayingInterface, item, IF w.d = 0 THEN 1 ELSE w.d),
         rateLimiter       |-> w.rl]

\* The queue is looked at first: When is not called for an add that the
\* delaying queue would absorb.
AddRateLimited_CheckFirst(s, item) ==
    IF s.DelayingInterface.shuttingDown \/ item \in s.DelayingInterface.dirty
    THEN s
    ELSE LET w == When(s.rateLimiter, item)
         IN  [DelayingInterface |-> AddAfter(s.DelayingInterface, item, w.d),
              rateLimiter       |-> w.rl]

\* When is called for the count; the delay is that of a first failure.
AddRateLimited_FixedDelay(s, item) ==
    LET w == When(s.rateLimiter, item)
    IN  [DelayingInterface |-> AddAfter(s.DelayingInterface, item, s.rateLimiter.unit),
         rateLimiter       |-> w.rl]

\* AddRateLimited: q.DelayingInterface.AddAfter(item, q.rateLimiter.When(item)).
AddRateLimited(s, item) ==
    LET w == When(s.rateLimiter, item)
    IN  [DelayingInterface |-> AddAfter(s.DelayingInterface, item, w.d),
         rateLimiter       |-> w.rl]

\* A variant of NumRequeues that counts the attempt in progress as well.
NumRequeues_PlusOne(s, item) == LimiterNumRequeues(s.rateLimiter, item) + 1

\* NumRequeues: q.rateLimiter.NumRequeues(item).
NumRequeues(s, item) == LimiterNumRequeues(s.rateLimiter, item)

\* Variants of Forget with a slip in them.
\* The rate limiter is not told.
Forget_Nothing(s, item) == s

\* Every item is forgotten, not only the one given.
Forget_All(s, item) ==
    [s EXCEPT !.rateLimiter = NewRateLimiter(s.rateLimiter.unit)]

\* The count is decremented, not dropped.
Forget_Decrement(s, item) ==
    [s EXCEPT !.rateLimiter.failures[item] = IF @ > 0 THEN @ - 1 ELSE 0]

\* The item's waiting entry is cancelled as well.
Forget_Cancel(s, item) ==
    [DelayingInterface |-> [s.DelayingInterface EXCEPT !.waiting[item] = NoEntry],
     rateLimiter       |-> LimiterForget(s.rateLimiter, item)]

\* One retry is taken back, also from an item that has none.
Forget_Undo(s, item) ==
    [s EXCEPT !.rateLimiter.failures[item] = @ - 1]

\* Forget: q.rateLimiter.Forget(item).
Forget(s, item) == [s EXCEPT !.rateLimiter = LimiterForget(@, item)]

\* ------------------------------------------------------------------- state

VARIABLES
    q,        \* the rateLimitingType: [DelayingInterface, rateLimiter]
    ret,      \* the last call: [op, item, val]
    win,      \* per item, the scheduling window opened by AddRateLimited
    retries,  \* per item, the AddRateLimited calls since the last Forget
    observed, \* the observers (ret, win, retries) that are kept up to date
    inflight  \* per thread, its AddRateLimited call in progress (SpecConcurrent)

vars == <<q, ret, win, retries, observed, inflight>>

\* ret, win and retries observe the calls and have no part in them.  A
\* specification updates the ones its properties read; the others keep their
\* initial value.  Under "delivery", ret records the AddRateLimited and Get
\* calls only, and NoCall after every other step; under "reads", the
\* NumRequeues calls only.
Observers == {"ret", "delivery", "reads", "win", "retries"}

\* ret: the operation that was called last, its item and a value (see the
\* calls below).
NoCall == [op |-> "New", item |-> NoItem, val |-> 0]

\* The calls that the liveness properties read.
Delivery == {"AddRateLimited", "Get"}

Call(op, item, val) ==
    IF "ret" \in observed
    THEN [op |-> op, item |-> item, val |-> val]
    ELSE IF "delivery" \in observed
         THEN IF op \in Delivery THEN [op |-> op, item |-> item, val |-> 0] ELSE NoCall
         ELSE IF "reads" \in observed
              THEN IF op = "NumRequeues"
                   THEN [op |-> op, item |-> item, val |-> val]
                   ELSE NoCall
              ELSE ret

\* win[x] is the scheduling window of x.  A window opens when AddRateLimited(x)
\* is called while x is neither waiting nor dirty; due is the earliest and last
\* the latest clock + When(x) of the AddRateLimited(x) calls made while x waits
\* in that window, dels the number of times Get returned x since it opened
\* (counted up to 2).  Any other way of adding x closes the window (NoWindow).
NoWindow == [due |-> NoEntry, last |-> NoEntry, dels |-> 0]

WinAddRateLimited(item, d) ==
    LET dq == q.DelayingInterface
        at == dq.clock + d
        w  == win[item]
    IN  IF dq.shuttingDown
        THEN w
        ELSE IF dq.waiting[item] = NoEntry /\ item \notin dq.dirty
             THEN [due |-> at, last |-> at, dels |-> 0]
             ELSE IF w # NoWindow /\ dq.waiting[item] # NoEntry /\ item \notin dq.dirty
                  THEN [w EXCEPT !.due = Min(@, at), !.last = at]
                  ELSE NoWindow

WinGet(item) ==
    IF win[item] = NoWindow THEN NoWindow ELSE [win[item] EXCEPT !.dels = Min(@ + 1, 2)]

Observe(item, w) == IF "win" \in observed THEN [win EXCEPT ![item] = w] ELSE win

\* retries[x]: calls is the number of AddRateLimited(x) calls since the last
\* Forget(x) (or since construction); prior is the count that the last
\* Forget(x) cleared, kept until the second AddRateLimited(x) after it, and
\* NoEntry otherwise.
NoRetries == [calls |-> 0, prior |-> NoEntry]

Count(item, r) == IF "retries" \in observed THEN [retries EXCEPT ![item] = r] ELSE retries

\* The threads that call AddRateLimited concurrently (SpecConcurrent).
NumThreads == 3

Threads == 1..NumThreads

\* inflight[t]: pc is where thread t is in its AddRateLimited call ("idle"
\* before it, "when" between When and AddAfter, "done" after it), d the
\* duration it holds for AddAfter, own the duration its own When returned.
Idle == [pc |-> "idle", d |-> 0, own |-> 0]

\* The queue after construction around a counting rate limiter.
Start(obs) ==
    /\ \E unit \in Units : q = NewRateLimitingQueue(NewRateLimiter(unit))
    /\ ret = NoCall
    /\ win = [i \in Items |-> NoWindow]
    /\ retries = [i \in Items |-> NoRetries]
    /\ observed = obs
    /\ inflight = [t \in Threads |-> Idle]

Init == Start({"ret"})

\* -------------------------------------------------------------- operations

\* q.AddRateLimited(item); val is the duration When returned.
AddRateLimitedCall(item) ==
    LET d == When(q.rateLimiter, item).d
    IN  /\ q.rateLimiter.failures[item] < MaxRequeues
        /\ q.DelayingInterface.clock + d <= MaxTime
        /\ q' = AddRateLimited(q, item)
        /\ ret' = Call("AddRateLimited", item, d)
        /\ win' = Observe(item, WinAddRateLimited(item, d))
        /\ retries' = Count(item, [calls |-> retries[item].calls + 1,
                                   prior |-> IF retries[item].calls = 0
                                             THEN retries[item].prior
                                             ELSE NoEntry])
        /\ UNCHANGED <<observed, inflight>>

\* q.Forget(item); val is the count before the call.
ForgetCall(item) ==
    /\ q' = Forget(q, item)
    /\ ret' = Call("Forget", item, LimiterNumRequeues(q.rateLimiter, item))
    /\ retries' = Count(item, [calls |-> 0, prior |-> retries[item].calls])
    /\ UNCHANGED <<win, observed, inflight>>

\* A variant of NumRequeues that asks the rate limiter by calling When.
NumRequeuesCall_Counting(item) ==
    /\ q' = [q EXCEPT !.rateLimiter = When(@, item).rl]
    /\ ret' = Call("NumRequeues", item, NumRequeues(q, item))
    /\ UNCHANGED <<win, retries, observed, inflight>>

\* q.NumRequeues(item); val is the result.
NumRequeuesCall(item) ==
    /\ q' = q
    /\ ret' = Call("NumRequeues", item, NumRequeues(q, item))
    /\ UNCHANGED <<win, retries, observed, inflight>>

\* A variant of Add that takes a plain add for a success and forgets the item.
AddCall_Forgets(item) ==
    /\ q' = [DelayingInterface |-> Add(q.DelayingInterface, item),
             rateLimiter       |-> LimiterForget(q.rateLimiter, item)]
    /\ ret' = Call("Add", item, 0)
    /\ win' = Observe(item, NoWindow)
    /\ UNCHANGED <<retries, observed, inflight>>

\* q.Add(item), promoted from the embedded DelayingInterface.
AddCall(item) ==
    /\ q' = [q EXCEPT !.DelayingInterface = Add(@, item)]
    /\ ret' = Call("Add", item, 0)
    /\ win' = Observe(item, NoWindow)
    /\ UNCHANGED <<retries, observed, inflight>>

\* A variant of AddAfter that is overridden to count the add as a failure.
AddAfterCall_Limited(item, duration) ==
    /\ q.DelayingInterface.clock + duration <= MaxTime
    /\ q' = [DelayingInterface |-> AddAfter(q.DelayingInterface, item, duration),
             rateLimiter       |-> When(q.rateLimiter, item).rl]
    /\ ret' = Call("AddAfter", item, duration)
    /\ win' = Observe(item, NoWindow)
    /\ UNCHANGED <<retries, observed, inflight>>

\* q.AddAfter(item, duration), promoted from the embedded DelayingInterface.
AddAfterCall(item, duration) ==
    /\ q.DelayingInterface.clock + duration <= MaxTime
    /\ q' = [q EXCEPT !.DelayingInterface = AddAfter(@, item, duration)]
    /\ ret' = Call("AddAfter", item, duration)
    /\ win' = Observe(item, NoWindow)
    /\ UNCHANGED <<retries, observed, inflight>>

\* q.Get() returns the head of the queue; on an empty queue it blocks, unless
\* the queue is shutting down, and then it returns (zero value, shutdown).
GetCall ==
    IF q.DelayingInterface.queue # << >>
    THEN LET item == Head(q.DelayingInterface.queue)
         IN  /\ q' = [q EXCEPT !.DelayingInterface = Get(@)]
             /\ ret' = Call("Get", item, 0)
             /\ win' = Observe(item, WinGet(item))
             /\ UNCHANGED <<retries, observed, inflight>>
    ELSE /\ q.DelayingInterface.shuttingDown
         /\ q' = q
         /\ ret' = Call("Get", NoItem, 1)
         /\ UNCHANGED <<win, retries, observed, inflight>>

\* q.Done(item), by the worker that holds the item.
DoneCall(item) ==
    /\ item \in q.DelayingInterface.processing
    /\ q' = [q EXCEPT !.DelayingInterface = Done(@, item)]
    /\ ret' = Call("Done", item, 0)
    /\ UNCHANGED <<win, retries, observed, inflight>>

\* q.ShutDown().
ShutDownCall ==
    /\ ~q.DelayingInterface.shuttingDown
    /\ q' = [q EXCEPT !.DelayingInterface = ShutDown(@)]
    /\ ret' = Call("ShutDown", NoItem, 0)
    /\ UNCHANGED <<win, retries, observed, inflight>>

\* q.ShutDownWithDrain(): as ShutDown; the call returns once the items being
\* processed are done.
ShutDownWithDrainCall ==
    /\ ~q.DelayingInterface.shuttingDown
    /\ q' = [q EXCEPT !.DelayingInterface = ShutDown(@)]
    /\ ret' = Call("ShutDownWithDrain", NoItem, 0)
    /\ UNCHANGED <<win, retries, observed, inflight>>

\* q.Len(); val is the result.
LenCall ==
    /\ q' = q
    /\ ret' = Call("Len", NoItem, QueueLen(q.DelayingInterface))
    /\ UNCHANGED <<win, retries, observed, inflight>>

\* q.ShuttingDown(); val is 1 for true and 0 for false.
ShuttingDownCall ==
    /\ q' = q
    /\ ret' = Call("ShuttingDown", NoItem, IF ShuttingDown(q.DelayingInterface) THEN 1 ELSE 0)
    /\ UNCHANGED <<win, retries, observed, inflight>>

\* The delaying queue's waiting loop moves a due entry to the queue.
WaitingLoopStep(item) ==
    /\ q.DelayingInterface.waiting[item] # NoEntry
    /\ q.DelayingInterface.waiting[item] <= q.DelayingInterface.clock
    /\ q' = [q EXCEPT !.DelayingInterface = WaitingLoop(@, item)]
    /\ ret' = Call("waitingLoop", item, 0)
    /\ UNCHANGED <<win, retries, observed, inflight>>

\* Time passes.
ClockStep ==
    /\ q.DelayingInterface.clock < MaxTime
    /\ q' = [q EXCEPT !.DelayingInterface = Step(@)]
    /\ ret' = Call("Step", NoItem, 0)
    /\ UNCHANGED <<win, retries, observed, inflight>>

Next ==
    \/ \E item \in Items : AddRateLimitedCall(item)
    \/ \E item \in Items : ForgetCall(item)
    \/ \E item \in Items : NumRequeuesCall(item)
    \/ \E item \in Items : AddCall(item)
    \/ \E item \in Items, duration \in 0..MaxDelay : AddAfterCall(item, duration)
    \/ GetCall
    \/ \E item \in Items : DoneCall(item)
    \/ ShutDownCall
    \/ ShutDownWithDrainCall
    \/ LenCall
    \/ ShuttingDownCall
    \/ \E item \in Items : WaitingLoopStep(item)
    \/ ClockStep

Spec == Init /\ [][Next]_vars

\* ------------------------------------------------ concurrent AddRateLimited

\* The item that the threads retry.
Contended == "a"

\* Thread t evaluates the argument q.rateLimiter.When(item) of its
\* AddRateLimited call; the rate limiter makes the call atomic.
WhenStep(t) ==
    LET w == When(q.rateLimiter, Contended)
    IN  /\ inflight[t].pc = "idle"
        /\ q' = [q EXCEPT !.rateLimiter = w.rl]
        /\ inflight' = [inflight EXCEPT ![t] = [pc |-> "when", d |-> w.d, own |-> w.d]]
        /\ UNCHANGED <<ret, win, retries, observed>>

\* A variant of the second step that asks the rate limiter for the current
\* delay of the item, which the other threads have raised by then.
AddAfterStep_Reread(t) ==
    /\ inflight[t].pc = "when"
    /\ q' = [q EXCEPT !.DelayingInterface =
                 AddAfter(@, Contended,
                          LimiterNumRequeues(q.rateLimiter, Contended) * q.rateLimiter.unit)]
    /\ inflight' = [inflight EXCEPT ![t].pc = "done"]
    /\ UNCHANGED <<ret, win, retries, observed>>

\* Thread t calls q.DelayingInterface.AddAfter(item, d) with the duration d
\* that it holds, and its AddRateLimited call returns.
AddAfterStep(t) ==
    /\ inflight[t].pc = "when"
    /\ q' = [q EXCEPT !.DelayingInterface = AddAfter(@, Contended, inflight[t].d)]
    /\ inflight' = [inflight EXCEPT ![t].pc = "done"]
    /\ UNCHANGED <<ret, win, retries, observed>>

\* The threads make one AddRateLimited call each, with no Forget, while the
\* waiting loop, a consumer and the clock go on.
NextConcurrent ==
    \/ \E t \in Threads : WhenStep(t)
    \/ \E t \in Threads : AddAfterStep(t)
    \/ \E item \in Items : WaitingLoopStep(item)
    \/ GetCall
    \/ \E item \in Items : DoneCall(item)
    \/ ClockStep

InitConcurrent == Start({})

SpecConcurrent == InitConcurrent /\ [][NextConcurrent]_vars

\* The scheduling that the liveness properties assume: the clock keeps
\* advancing (up to MaxTime), the waiting loop runs, a consumer keeps calling
\* Get and every worker calls Done on the item it holds.
Fairness ==
    /\ WF_vars(ClockStep)
    /\ WF_vars(GetCall)
    /\ \A item \in Items : WF_vars(WaitingLoopStep(item))
    /\ \A item \in Items : WF_vars(DoneCall(item))

InitLive == Start({"delivery"})

SpecLive == InitLive /\ [][Next]_vars /\ Fairness

\* The same operations with the scheduling windows observed.
InitWindow == Start({"win"})

SpecWindow == InitWindow /\ [][Next]_vars

\* The same operations with the retries counted.
InitRetries == Start({"retries"})

SpecRetries == InitRetries /\ [][Next]_vars

\* The same operations with the scheduling windows observed and the
\* AddRateLimited and Get calls recorded.
InitCalls == Start({"delivery", "win"})

SpecCalls == InitCalls /\ [][Next]_vars

\* The same operations with the retries counted and the NumRequeues calls
\* recorded.
InitReads == Start({"retries", "reads"})

SpecReads == InitReads /\ [][Next]_vars

\* ------------------------------------------------ the end-to-end scenario

\* The scenario calls AddRateLimited("x") three times.
ScenarioCalls == 3

\* The item of the scenario.
X == "a"

\* The clock time of the call after n calls: the clock is advanced by 1, 2
\* and 3 ticks after the first, second and third call.
CallTime(n) == (n * (n + 1)) \div 2

\* The next AddRateLimited("x") call of the scenario.
ScenarioCall ==
    LET d == When(q.rateLimiter, X).d
    IN  /\ retries[X].calls < ScenarioCalls
        /\ q.DelayingInterface.clock = CallTime(retries[X].calls)
        /\ q' = AddRateLimited(q, X)
        /\ ret' = Call("AddRateLimited", X, d)
        /\ win' = Observe(X, WinAddRateLimited(X, d))
        /\ retries' = Count(X, [calls |-> retries[X].calls + 1, prior |-> NoEntry])
        /\ UNCHANGED <<observed, inflight>>

\* The scenario advances the clock up to the time of the next call.
ScenarioClockStep ==
    /\ q.DelayingInterface.clock < CallTime(retries[X].calls)
    /\ q' = [q EXCEPT !.DelayingInterface = Step(@)]
    /\ ret' = Call("Step", NoItem, 0)
    /\ UNCHANGED <<win, retries, observed, inflight>>

\* The scenario, with the waiting loop running and a consumer that may take
\* "x" and be done with it at any time.
NextScenario ==
    \/ ScenarioCall
    \/ ScenarioClockStep
    \/ \E item \in Items : WaitingLoopStep(item)
    \/ GetCall
    \/ \E item \in Items : DoneCall(item)
    \/ \E item \in Items : NumRequeuesCall(item)

\* A queue with a counting rate limiter: When returns count * 1s.
InitScenario == Start({"win", "retries", "reads"}) /\ q.rateLimiter.unit = 1

SpecScenario == InitScenario /\ [][NextScenario]_vars

\* ------------------------------------------------------------ properties

DQ == q.DelayingInterface

\* x is in the queue: the next Get calls can return it.
Visible(x) == x \in Range(DQ.queue)

\* C1 as stated: after AddRateLimited(x) at clock time t, where When(x)
\* returned d, x is not returned by Get before t + d.  Stated for the latest
\* AddRateLimited(x) call of x's scheduling window: x is not in the queue
\* before that call's t + d.
C1_NotBeforeLatestCall ==
    \A x \in Items :
        (win[x] # NoWindow /\ Visible(x)) => DQ.clock >= win[x].last

\* C1, amended: x is not in the queue, so no Get returns it, before the
\* earliest t + d of the AddRateLimited(x) calls made since x was last
\* neither waiting nor queued, as long as no Add or AddAfter of x intervenes.
C1_NotBeforeEarliestCall ==
    \A x \in Items :
        (win[x] # NoWindow /\ Visible(x)) => DQ.clock >= win[x].due

\* x was rate limited with a positive delay, the delay has passed and x is in
\* the queue.
C1_Witness ==
    \E x \in Items :
        /\ win[x] # NoWindow
        /\ win[x].due >= 2
        /\ Visible(x)

\* AddRateLimited(x) has just returned on a queue that is not shut down.
RateLimited(x) ==
    ret.op = "AddRateLimited" /\ ret.item = x /\ ~DQ.shuttingDown

\* Get has just returned x.
Returned(x) == ret.op = "Get" /\ ret.item = x

\* C2 as stated: after AddRateLimited(x) on a queue that is not shut down,
\* with the clock advancing and a consumer calling Get, x is eventually
\* returned by Get.
C2_EventuallyReturned ==
    \A x \in Items : RateLimited(x) ~> Returned(x)

\* C2, amended: after AddRateLimited(x) on a queue that is not shut down,
\* with the clock advancing, a consumer calling Get and the workers calling
\* Done, x is eventually returned by Get unless the queue is shut down first.
C2_ReturnedUnlessShutDown ==
    \A x \in Items : RateLimited(x) ~> (Returned(x) \/ DQ.shuttingDown)

\* x was rate limited with a positive delay on a running queue and Get has
\* returned it after the delay.
C2_Witness ==
    \E x \in Items :
        /\ Returned(x)
        /\ ~DQ.shuttingDown
        /\ NumRequeues(q, x) > 0
        /\ q.rateLimiter.unit > 0
        /\ DQ.clock >= NumRequeues(q, x)

\* C3: NumRequeues(x) is the number of AddRateLimited(x) calls made since
\* the last Forget(x) (since construction when there was none).
C3_CountsCalls ==
    \A x \in Items : NumRequeues(q, x) = retries[x].calls

\* AddRateLimited(x) was called twice in a row and NumRequeues(x) is 2.
C3_Witness ==
    \E x \in Items : retries[x].calls = 2 /\ NumRequeues(q, x) = 2

\* C4: right after Forget(x), NumRequeues(x) is 0, whatever it was before.
C4_ForgetResets ==
    ret.op = "Forget" => NumRequeues(q, ret.item) = 0

\* Forget(x) was called on an x with a count of 2.
C4_Witness ==
    ret.op = "Forget" /\ ret.val = 2 /\ NumRequeues(q, ret.item) = 0

\* C5: Get returns x at most once in a scheduling window, however many
\* AddRateLimited(x) calls were made while x waited.
C5_OneDelivery ==
    \A x \in Items : win[x].dels <= 1

\* AddRateLimited(x) was called twice while x waited (the second call's time
\* is later than the first's) and Get has returned x once.
C5_Witness ==
    \E x \in Items :
        /\ win[x] # NoWindow
        /\ win[x].last > win[x].due
        /\ win[x].dels = 1

\* C6: an AddRateLimited call on a queue that is shutting down leaves the
\* delaying queue as it is: nothing is scheduled, nothing becomes visible.
C6_NoOpAfterShutDown ==
    [][(DQ.shuttingDown /\ ret'.op = "AddRateLimited")
          => q'.DelayingInterface = q.DelayingInterface]_vars

\* AddRateLimited was called after ShutDown and has returned.
C6_Witness ==
    /\ ret.op = "AddRateLimited"
    /\ DQ.shuttingDown
    /\ NumRequeues(q, ret.item) = 2

\* C7: AddRateLimited(b) and Forget(b) leave NumRequeues(a) of every other
\* item a as it was.
C7_Independence ==
    [][\A a \in Items :
          (ret'.op \in {"AddRateLimited", "Forget"} /\ ret'.item # a)
              => NumRequeues(q', a) = NumRequeues(q, a)]_vars

\* Forget(b) was called while a had a count of 2, which it still has.
C7_Witness ==
    \E a \in Items :
        /\ ret.op = "Forget"
        /\ ret.item # a
        /\ ret.val > 0
        /\ NumRequeues(q, a) = 2

\* C8: what the queue's NumRequeues(x) returns is what the rate limiter
\* reports for x, and the queue has no field besides the delaying queue and
\* the rate limiter.
C8_SingleSource ==
    /\ DOMAIN q = {"DelayingInterface", "rateLimiter"}
    /\ ret.op = "NumRequeues"
          => ret.val = LimiterNumRequeues(q.rateLimiter, ret.item)

\* NumRequeues(x) was called and returned 2.
C8_Witness ==
    ret.op = "NumRequeues" /\ ret.val = 2

\* The delay of the rate limiter for an item it has never seen.
FreshDelay(x) == When(NewRateLimiter(q.rateLimiter.unit), x).d

\* C9: the first AddRateLimited(x) after Forget(x) leaves NumRequeues(x) = 1
\* and does to the delaying queue what AddAfter(x, d) does for the d of a
\* never-seen item.
C9_FreshAfterForget ==
    [][\A x \in Items :
          (/\ retries[x].calls = 0
           /\ retries[x].prior # NoEntry
           /\ retries'[x].calls = 1)
              => /\ NumRequeues(q', x) = 1
                 /\ q'.DelayingInterface = AddAfter(q.DelayingInterface, x, FreshDelay(x))]_vars

\* x was rate limited twice, forgotten and rate limited again.
C9_Witness ==
    \E x \in Items :
        /\ retries[x].calls = 1
        /\ retries[x].prior = 2
        /\ q.rateLimiter.unit > 0
        /\ DQ.waiting[x] # NoEntry

\* C10: Forget leaves the delaying queue (waiting entries, queue, dirty and
\* processing sets) as it is.  An item leaves the processing set by Done
\* and by nothing else.
C10_ForgetLeavesQueue ==
    [][/\ ret'.op = "Forget" => q'.DelayingInterface = q.DelayingInterface
       /\ \A x \in Items :
              (x \in DQ.processing /\ x \notin q'.DelayingInterface.processing)
                  => (ret'.op = "Done" /\ ret'.item = x)]_vars

\* Forget(x) was called while x was waiting and another item was being
\* processed; both still are.
C10_Witness ==
    /\ ret.op = "Forget"
    /\ ret.val > 0
    /\ DQ.waiting[ret.item] # NoEntry
    /\ DQ.processing # {}

\* The operations that rateLimitingType takes over from the embedded
\* DelayingInterface.
PassedThrough ==
    {"Add", "AddAfter", "Get", "Done", "Len", "ShutDown", "ShutDownWithDrain",
     "ShuttingDown"}

\* C11: a call of an operation other than AddRateLimited, Forget and
\* NumRequeues does to the delaying queue, and returns, what the same call on
\* the delaying queue itself does and returns, and leaves the rate limiter as
\* it is.
C11_PassThrough ==
    [][/\ ret'.op \in PassedThrough => q'.rateLimiter = q.rateLimiter
       /\ ret'.op = "Add" => q'.DelayingInterface = Add(DQ, ret'.item)
       /\ ret'.op = "AddAfter" => q'.DelayingInterface = AddAfter(DQ, ret'.item, ret'.val)
       /\ ret'.op = "Get" =>
              IF DQ.queue # << >>
              THEN q'.DelayingInterface = Get(DQ) /\ ret'.item = Head(DQ.queue)
              ELSE q'.DelayingInterface = DQ /\ ret'.item = NoItem /\ ret'.val = 1
       /\ ret'.op = "Done" => q'.DelayingInterface = Done(DQ, ret'.item)
       /\ ret'.op \in {"ShutDown", "ShutDownWithDrain"} =>
              q'.DelayingInterface = ShutDown(DQ)
       /\ ret'.op = "Len" =>
              q'.DelayingInterface = DQ /\ ret'.val = QueueLen(DQ)
       /\ ret'.op = "ShuttingDown" =>
              q'.DelayingInterface = DQ /\ (ret'.val = 1) = ShuttingDown(DQ)]_vars

\* AddAfter(x, 1) was called for an x with a retry count of 2: x waits one
\* tick from now and its count is still 2.
C11_Witness ==
    /\ ret.op = "AddAfter"
    /\ ret.val = 1
    /\ DQ.waiting[ret.item] = DQ.clock + 1
    /\ NumRequeues(q, ret.item) = 2

\* C15: the retry count of x changes only in an AddRateLimited(x) call, where
\* it goes up by one, and in a Forget(x) call, where it goes to 0; every
\* AddRateLimited(x) call raises it.
C15_CountTransitions ==
    [][\A x \in Items :
          /\ NumRequeues(q', x) # NumRequeues(q, x) =>
                 \/ /\ ret'.op = "AddRateLimited"
                    /\ ret'.item = x
                    /\ NumRequeues(q', x) = NumRequeues(q, x) + 1
                 \/ /\ ret'.op = "Forget"
                    /\ ret'.item = x
                    /\ NumRequeues(q', x) = 0
          /\ (ret'.op = "AddRateLimited" /\ ret'.item = x) =>
                 NumRequeues(q', x) = NumRequeues(q, x) + 1]_vars

\* x has a retry count of 2 and Get has just returned it: the delivery left
\* the count alone.
C15_Witness ==
    /\ ret.op = "Get"
    /\ ret.item \in Items
    /\ NumRequeues(q, ret.item) = 2

\* The number of times x is in the queue.
Queued(x) == Cardinality({i \in 1..Len(DQ.queue) : DQ.queue[i] = x})

\* C13: AddRateLimited(x) calls made while x waits collapse into one waiting
\* entry, due at the earliest clock + When(x) of these calls: x is in the
\* queue once at most, and not before that time.
C13_EarlierWins ==
    \A x \in Items :
        win[x] # NoWindow =>
            /\ DQ.waiting[x] # NoEntry => DQ.waiting[x] = win[x].due /\ ~Visible(x)
            /\ Visible(x) => DQ.clock >= win[x].due
            /\ Queued(x) <= 1

\* AddRateLimited(x) was called twice while x waited, and x is in the queue
\* at the time of the first call's schedule, before the second call's.
C13_Witness ==
    \E x \in Items :
        /\ win[x] # NoWindow
        /\ win[x].last > win[x].due
        /\ Visible(x)
        /\ DQ.clock = win[x].due
        /\ DQ.clock < win[x].last

\* C14 as stated: an AddRateLimited(x) call for which When(x) returned 0
\* leaves the delaying queue as Add(x) leaves it; after a call for which
\* When(x) returned d > 0, x is not in the queue until d has elapsed, so not
\* when the call returns.
C14_ZeroIsAddElseHidden ==
    [][ret'.op = "AddRateLimited" =>
          IF ret'.val = 0
          THEN q'.DelayingInterface = Add(DQ, ret'.item)
          ELSE ret'.item \notin Range(q'.DelayingInterface.queue)]_vars

\* C14, amended: an AddRateLimited(x) call for which When(x) returned 0
\* leaves the delaying queue as Add(x) leaves it.  A call for which When(x)
\* returned d > 0 puts nothing into the queue: it leaves the queue, the dirty
\* and the processing set as they are and, unless the queue is shutting
\* down, leaves x waiting until clock + d, or until the time x was waiting
\* for already when that is earlier.  An x that was in the queue before the
\* call stays there; an x that was not enters it by the waiting loop only,
\* when its time has come, or by an add without a delay or a Done.
C14_ZeroIsAddElseScheduled ==
    [][/\ ret'.op = "AddRateLimited" =>
              IF ret'.val = 0
              THEN q'.DelayingInterface = Add(DQ, ret'.item)
              ELSE /\ q'.DelayingInterface.queue = DQ.queue
                   /\ q'.DelayingInterface.dirty = DQ.dirty
                   /\ q'.DelayingInterface.processing = DQ.processing
                   /\ q'.DelayingInterface.waiting[ret'.item] =
                          IF DQ.shuttingDown
                          THEN DQ.waiting[ret'.item]
                          ELSE IF DQ.waiting[ret'.item] = NoEntry
                               THEN DQ.clock + ret'.val
                               ELSE Min(DQ.waiting[ret'.item], DQ.clock + ret'.val)
       /\ \A x \in Items :
              (x \notin Range(DQ.queue) /\ x \in Range(q'.DelayingInterface.queue)) =>
                  \/ ret'.op \in {"Add", "Done"} /\ ret'.item = x
                  \/ ret'.op \in {"AddAfter", "AddRateLimited"} /\ ret'.item = x /\ ret'.val = 0
                  \/ /\ ret'.op = "waitingLoop"
                     /\ ret'.item = x
                     /\ DQ.waiting[x] # NoEntry
                     /\ DQ.waiting[x] <= DQ.clock]_vars

\* AddRateLimited(x) was called twice on a limiter whose When returns 0, at
\* clock time 0: x is in the queue, once, and nothing waits.
C14_Witness ==
    /\ ret.op = "AddRateLimited"
    /\ ret.val = 0
    /\ NumRequeues(q, ret.item) = 2
    /\ DQ.clock = 0
    /\ DQ.queue = <<ret.item>>
    /\ DQ.waiting[ret.item] = NoEntry

\* C16: a Forget(x) call for an x without an AddRateLimited(x) call since
\* construction or since the last Forget(x) leaves the retry counts of all
\* items and the delaying queue as they are.
C16_ForgetUnknownIsNoOp ==
    [][\A x \in Items :
          (/\ retries[x].calls = 0
           /\ retries'[x].calls = 0
           /\ retries'[x] # retries[x])
              => /\ q' = q
                 /\ \A y \in Items : NumRequeues(q', y) = NumRequeues(q, y)]_vars

\* Forget(x) was called for an x that had no retries, while x was in the
\* queue and another item was waiting with a count of 2.
C16_Witness ==
    \E x, y \in Items :
        /\ retries[x] = [calls |-> 0, prior |-> 0]
        /\ Visible(x)
        /\ NumRequeues(q, y) = 2
        /\ DQ.waiting[y] # NoEntry

\* C17: a NumRequeues(x) call, wherever it falls among the other calls,
\* leaves the rate limiter with its retry counts and the delaying queue as
\* they are, and returns 0 for an x without an AddRateLimited(x) call since
\* construction or since the last Forget(x).
C17_PureRead ==
    [][ret'.op = "NumRequeues" =>
          /\ q' = q
          /\ retries' = retries
          /\ retries[ret'.item].calls = 0 => ret'.val = 0]_vars

\* NumRequeues(x) returned 0 for an x that was rate limited twice and then
\* forgotten, and that still waits in the delaying queue.
C17_Witness ==
    /\ ret.op = "NumRequeues"
    /\ ret.val = 0
    /\ retries[ret.item] = [calls |-> 0, prior |-> 2]
    /\ DQ.waiting[ret.item] # NoEntry

\* C18: every AddRateLimited(x) call calls When(x) once and hands the
\* duration to AddAfter: the retry count of x goes up by one in every call,
\* also in a call that leaves the delaying queue as it is.
C18_CountsEveryCall ==
    [][ret'.op = "AddRateLimited" =>
          LET x == ret'.item
              w == When(q.rateLimiter, x)
          IN  /\ q'.rateLimiter = w.rl
              /\ q'.DelayingInterface = AddAfter(DQ, x, w.d)
              /\ NumRequeues(q', x) = NumRequeues(q, x) + 1]_vars

\* AddRateLimited(x) was called on a queue that is shutting down, after one
\* call that left x waiting: the call changed nothing in the delaying queue,
\* Get has not returned x, and the retry count of x is 2.
C18_Witness ==
    \E x \in Items :
        /\ ret.op = "AddRateLimited"
        /\ ret.item = x
        /\ DQ.shuttingDown
        /\ q.rateLimiter.unit = 1
        /\ win[x] # NoWindow
        /\ win[x].last = win[x].due
        /\ win[x].dels = 0
        /\ DQ.waiting[x] = win[x].due
        /\ NumRequeues(q, x) = 2

\* The threads whose When has returned.
Counted == {t \in Threads : inflight[t].pc # "idle"}

\* The number of waiting entries of x.
Waiting(x) == IF DQ.waiting[x] = NoEntry THEN 0 ELSE 1

\* C19, the count: When counts every call once, so the retry count is the
\* number of threads whose When has returned, which is NumThreads in the
\* end, and the durations that When returned are those of the counts
\* 1, 2, ... in some order.
C19_CountIsCalls ==
    /\ NumRequeues(q, Contended) = Cardinality(Counted)
    /\ {inflight[t].own : t \in Counted}
           = {n * q.rateLimiter.unit : n \in 1..Cardinality(Counted)}

\* C19, pending at most once: x is in the queue once at most, and while
\* the calls fall into one instant (no tick of the clock since the first)
\* x is either waiting or in the queue, not both.
C19_PendingOnce ==
    /\ Queued(Contended) <= 1
    /\ DQ.clock = 0 => Queued(Contended) + Waiting(Contended) <= 1

C12_VisibleAfterThirdDelay ==
    /\ retries[X].calls = ScenarioCalls => NumRequeues(q, X) = ScenarioCalls
    /\ Visible(X) =>
           /\ retries[X].calls = ScenarioCalls
           /\ DQ.clock >= CallTime(ScenarioCalls - 1) + ScenarioCalls

\* C12, amended: in the scenario, NumRequeues("x") is the number of calls
\* made, 3 in the end; "x" is not in the queue before the delay of the first
\* call has elapsed, and can be from then on; and when a call finds "x"
\* neither waiting nor queued (a consumer has taken it), "x" is not in the
\* queue again before that call's own delay has elapsed.
C12_VisibleAfterFirstDelay ==
    /\ NumRequeues(q, X) = retries[X].calls
    /\ ret.op = "NumRequeues" /\ ret.item = X => ret.val = retries[X].calls
    /\ Visible(X) => DQ.clock >= CallTime(0) + 1
    /\ (win[X] # NoWindow /\ Visible(X)) => DQ.clock >= win[X].due

\* The three calls are made, NumRequeues("x") has returned 3, the consumer
\* took "x" before the third call, and "x" is in the queue again when the
\* delay of the third call has elapsed.
C12_Witness ==
    /\ retries[X].calls = ScenarioCalls
    /\ ret = [op |-> "NumRequeues", item |-> X, val |-> ScenarioCalls]
    /\ win[X].due = CallTime(ScenarioCalls - 1) + ScenarioCalls
    /\ DQ.clock = win[X].due
    /\ Visible(X)

====
